---- MODULE Spec2Model ----
(***************************************************************************)
(* Search orchestration and result rendering of the furniture image-search *)
(* client, src/static/furniture.js: the debounced "did you mean"           *)
(* suggestions, the text and image search requests with their asynchronous *)
(* completions, and displayResults.  src/unnamed/part_000 and part_001 are  *)
(* other revisions of the same file; where they differ, the model follows  *)
(* src/static/furniture.js.                                                *)
(*                                                                         *)
(* Strings are sequences of tokens.  A token is a piece of text that no    *)
(* operation of the program splits: the query field is a sequence of       *)
(* single characters, a path is a sequence of separators and name pieces.  *)
(* An object is a TLA+ record that has a field exactly when the JavaScript *)
(* object has the property; a property read goes through Get, which gives  *)
(* Undef for an absent property.                                           *)
(***************************************************************************)
EXTENDS Naturals, Sequences, FiniteSets

VARIABLES
  textInput,      \* textInput.value
  files,          \* whether a file is selected in the imageQuery picker
  debounceTimer,  \* the handle held by debounceTimer (0: undefined)
  timers,         \* handles of the timers that are armed
  suggestionDiv,  \* suggestionDiv.innerHTML
  resultsDiv,     \* resultsDiv's content
  resultsCount,   \* resultsCount.textContent
  suggestFetches, \* /suggest requests in flight
  searchFetches,  \* /search/text and /search/image requests in flight
  alerts,         \* the alert() dialogs the handler that ran last has shown
  console,        \* what the handler that ran last wrote to the console
  nInputs,        \* input events so far
  nCalls,         \* searchText and searchImage invocations so far
  arrived,        \* history: the search fetches that completed, in order, and
                  \* what each left
  burst,          \* history: the input burst in progress and what it requested
  last            \* history: the handler that ran last, with its inputs

vars == <<textInput, files, debounceTimer, timers, suggestionDiv, resultsDiv,
          resultsCount, suggestFetches, searchFetches, alerts, console,
          nInputs, nCalls, arrived, burst, last>>

(***************************************************************************)
(* Bounds of the model.                                                    *)
(***************************************************************************)
\* The longest text typed into the query field.
MaxLen == 2
\* The longest result list.
MaxResults == 3
\* Input events and search invocations, where the suggestion side is explored.
MaxInputs == 2
FewCalls == 1
\* Search invocations and input events, where the search side is explored.
MaxCalls == 2
FewInputs == 1

(***************************************************************************)
(* Values.                                                                 *)
(***************************************************************************)
Undef == [def |-> FALSE]

Some(v) == [def |-> TRUE, v |-> v]

Get(obj, f) == IF f \in DOMAIN obj THEN Some(obj[f]) ELSE Undef

SeqsUpTo(S, n) == UNION {[1..k -> S] : k \in 0..n}

Range(s) == {s[i] : i \in 1..Len(s)}

\* What the user can type into the query field.
Typed == SeqsUpTo({" ", "a"}, MaxLen) \cup {<<"A">>}

\* The did_you_mean strings the suggestion service may answer with: empty,
\* blank, padded, differing from a query in case only, holding a quote.
DidYouMeans ==
  {<<>>, <<" ">>, <<"a">>, <<"A">>, <<"a", "a">>, <<" ", "a">>, <<"a", "'">>}

(***************************************************************************)
(* String operations.                                                      *)
(***************************************************************************)
RECURSIVE TrimStart(_)
TrimStart(s) == IF s # <<>> /\ Head(s) = " " THEN TrimStart(Tail(s)) ELSE s

RECURSIVE TrimEnd(_)
TrimEnd(s) ==
  IF s # <<>> /\ s[Len(s)] = " " THEN TrimEnd(SubSeq(s, 1, Len(s) - 1)) ELSE s

\* String.prototype.trim
Trim(s) == TrimEnd(TrimStart(s))

\* String.prototype.toLowerCase
ToLowerCase(s) == [i \in 1..Len(s) |-> IF s[i] = "A" THEN "a" ELSE s[i]]

\* String.prototype.startsWith
StartsWith(s, p) == Len(s) >= Len(p) /\ SubSeq(s, 1, Len(p)) = p

\* s.split("/").pop(): what follows the last separator
RECURSIVE SplitPop(_)
SplitPop(s) ==
  IF s = <<>> THEN <<>>
  ELSE IF s[Len(s)] = "/" THEN <<>>
  ELSE Append(SplitPop(SubSeq(s, 1, Len(s) - 1)), s[Len(s)])

(***************************************************************************)
(* Raw result records, as the backend sends them.                          *)
(***************************************************************************)
RecSofa ==
  [item_name |-> <<"Sofa A">>,
   image_path |-> <<"static", "/", "uploads", "/", "a.jpg">>,
   price |-> <<"199">>]

RecChair ==
  [item_name |-> <<"Chair">>, description |-> <<"oak">>,
   image_path |-> <<"/", "static", "/", "b.jpg">>,
   final_price |-> <<"5">>, special_price |-> <<"7">>, price |-> <<"9">>,
   colors |-> << <<"red">>, <<"blue">> >>]

\* image_path absent
RecNoPath == [item_name |-> <<"Lamp">>, price |-> <<"9">>]

\* image_path empty
RecEmptyPath == [item_name |-> <<"Desk">>, image_path |-> <<>>]

Catalogue == {RecSofa, RecChair, RecNoPath, RecEmptyPath}

\* A ranked result list holds no item twice.
ResultLists ==
  {l \in SeqsUpTo(Catalogue, MaxResults) :
     \A i, j \in 1..Len(l) : l[i] = l[j] => i = j}

\* The price properties a record may carry, with the value of each.
PriceOf == [final_price |-> <<"5">>, special_price |-> <<"7">>, price |-> <<"9">>]

PriceFields == {"final_price", "special_price", "price"}

\* A record that carries the price properties in present, those in empty as
\* empty strings.
PricedRecord(present, empty) ==
  [f \in {"item_name", "image_path"} \cup present |->
     IF f = "item_name" THEN <<"Table">>
     ELSE IF f = "image_path" THEN <<"/", "static", "/", "t.jpg">>
     ELSE IF f \in empty THEN <<>> ELSE PriceOf[f]]

\* Every combination of final_price, special_price and price being absent,
\* empty or set.
PricedRecords ==
  UNION {{PricedRecord(present, empty) : empty \in SUBSET present} :
           present \in SUBSET PriceFields}

\* The image paths of the backend: rooted at /static, under static without the
\* leading separator, a server path, a path relative to another directory,
\* bare file names (one of them "statica.jpg"), and a directory
\* "/staticfiles" that is not the static namespace.
ImagePaths ==
  {<<"/", "static", "/", "uploads", "/", "a.jpg">>,
   <<"static", "/", "uploads", "/", "a.jpg">>,
   <<"/", "srv", "/", "data", "/", "a.jpg">>,
   <<"data", "/", "a.jpg">>,
   <<"a.jpg">>,
   <<"static", "a.jpg">>,
   <<"/", "static", "files", "/", "a.jpg">>}

PathRecord(path) == [item_name |-> <<"Shelf">>, image_path |-> path]

PathRecords == {PathRecord(path) : path \in ImagePaths}

\* Markup characters in the title, the description and a colour.
RecMarkup ==
  [item_name |-> <<"<", "b", ">">>, description |-> <<"a", "&", "b">>,
   image_path |-> <<"/", "static", "/", "m.jpg">>,
   colors |-> << <<"<", "i", ">">>, <<"red">> >>]

\* An empty title.
RecNoTitle == [item_name |-> <<>>, image_path |-> <<"/", "static", "/", "n.jpg">>]

RenderCatalogue == PricedRecords \cup PathRecords \cup {RecMarkup, RecNoTitle}

(***************************************************************************)
(* displayResults                                                          *)
(***************************************************************************)
\* x || dflt, for a string or array x
OrElse(x, dflt) == IF x.def /\ x.v # <<>> THEN x.v ELSE dflt

\* x ?? y
Coalesce(x, y) == IF x.def THEN x ELSE y

\* item.image_path.startsWith(...) throws a TypeError on undefined
Renderable(item) == Get(item, "image_path").def

ImgSrc(image_path) ==
  IF StartsWith(image_path, <<"/", "static">>) THEN image_path
  ELSE IF StartsWith(image_path, <<"static">>) THEN <<"/">> \o image_path
  ELSE <<"/", "static", "/", "uploads", "/">> \o SplitPop(image_path)

\* The div.result element built for one item.
ResultBlock(item) ==
  [src |-> ImgSrc(item.image_path),
   alt |-> OrElse(Get(item, "item_name"), <<"Furniture item">>),
   title |-> OrElse(Get(item, "item_name"), <<>>),
   description |-> OrElse(Get(item, "description"), <<>>),
   price |-> Coalesce(Get(item, "final_price"),
                      Coalesce(Get(item, "price"), Some(<<>>))).v,
   tags |-> OrElse(Get(item, "colors"), <<>>)]

\* The items forEach reaches before an item throws.
RECURSIVE RenderedPrefix(_)
RenderedPrefix(items) ==
  IF items = <<>> \/ ~Renderable(Head(items)) THEN <<>>
  ELSE <<Head(items)>> \o RenderedPrefix(Tail(items))

NoResults == [placeholder |-> TRUE, blocks |-> <<>>]

\* A count label whose noun is always in the plural.
CountLabelPlural(n) == [set |-> TRUE, n |-> n, noun |-> "items"]

\* `${items.length} ${items.length === 1 ? "item" : "items"}`
CountLabel(n) == [set |-> TRUE, n |-> n, noun |-> IF n = 1 THEN "item" ELSE "items"]

\* displayResults without its resultsDiv.innerHTML = "": the view is kept.
ClearResultsKeeps(div) == div

\* resultsDiv.innerHTML = ""
ClearResults(div) == [placeholder |-> FALSE, blocks |-> <<>>]

\* displayResults(items) on the results view div: the view and the count label
\* it leaves, and whether it threw.
displayResults(div, items) ==
  LET done == RenderedPrefix(items)
      cleared == ClearResults(div)
  IN [div |-> IF items = <<>> THEN NoResults
              ELSE [cleared EXCEPT !.blocks =
                      @ \o [i \in 1..Len(done) |-> ResultBlock(done[i])]],
      count |-> CountLabel(Len(items)),
      threw |-> Len(done) < Len(items)]

(***************************************************************************)
(* What the network can answer.                                            *)
(***************************************************************************)
\* The error a rejected fetch carries differs from browser to browser.
NetErrs == {<<"TypeError: Failed to fetch">>,
            <<"TypeError: NetworkError when attempting to fetch resource.">>}

JsonErr == <<"SyntaxError: Unexpected token">>

RenderErr == <<"TypeError: Cannot read properties of undefined">>

NullErr == <<"TypeError: Cannot read properties of null">>

Null == [null |-> TRUE]

NotJson(text) == [json |-> FALSE, text |-> text]

Json(data) == [json |-> TRUE, text |-> <<"{...}">>, data |-> data]

JsonText(text, data) == [json |-> TRUE, text |-> text, data |-> data]

Rejected == {[type |-> "reject", err |-> e] : e \in NetErrs}

Http(bodiesOk, bodiesErr) ==
  {[type |-> "http", ok |-> TRUE, status |-> 200, body |-> b] : b \in bodiesOk}
    \cup
  {[type |-> "http", ok |-> FALSE, status |-> 500, body |-> b] : b \in bodiesErr}

SuggestBodies ==
  {NotJson(<<"Internal Server Error">>), Json(Null), Json([suggestions |-> <<>>])}
    \cup {Json([did_you_mean |-> d]) : d \in DidYouMeans}

SuggestErrBodies ==
  {NotJson(<<"Internal Server Error">>), Json([did_you_mean |-> <<"a", "a">>])}

SuggestResponses == Rejected \cup Http(SuggestBodies, SuggestErrBodies)

\* An object whose properties in names are null.  The record has no field for
\* them: ||, ?? and a property read on the value treat null as they treat
\* undefined, so Get gives Undef for both.
WithNull(names) == [nulls |-> names]

\* An answer may lack the results field, or carry null for it.
SearchBodies ==
  {NotJson(<<"<html>">>), Json([took |-> <<"3">>]), Json(WithNull({"results"}))}
    \cup {Json([results |-> items]) : items \in ResultLists}

SearchErrBodies ==
  {NotJson(<<"Internal Server Error">>),
   JsonText(<<"{detail: No image uploaded}">>, [detail |-> <<"No image uploaded">>])}

SearchResponses == Rejected \cup Http(SearchBodies, SearchErrBodies)

\* Answers that carry each record of RenderCatalogue alone, the empty list and
\* a list of two.
RenderBodies ==
  {Json([results |-> <<>>]), Json([results |-> <<RecMarkup, RecNoTitle>>])}
    \cup {Json([results |-> <<item>>]) : item \in RenderCatalogue}

RenderResponses == Http(RenderBodies, {NotJson(<<"Internal Server Error">>)})

\* Answers of the suggestion service, one of them with markup characters.
MarkupSuggestResponses ==
  Http({Json([suggestions |-> <<>>]), Json([did_you_mean |-> <<"a", "a">>]),
        Json([did_you_mean |-> <<"<", "b", ">">>])},
       {NotJson(<<"Internal Server Error">>)})

(***************************************************************************)
(* The initial state: the page as loaded.                                  *)
(***************************************************************************)
NoSuggestion == [kind |-> "empty"]

Init ==
  /\ textInput = <<>>
  /\ files = FALSE
  /\ debounceTimer = 0
  /\ timers = {}
  /\ suggestionDiv = NoSuggestion
  /\ resultsDiv = [placeholder |-> FALSE, blocks |-> <<>>]
  /\ resultsCount = [set |-> FALSE]
  /\ suggestFetches = {}
  /\ searchFetches = {}
  /\ alerts = <<>>
  /\ console = <<>>
  /\ nInputs = 0
  /\ nCalls = 0
  /\ arrived = <<>>
  /\ burst = [n |-> 0, typed |-> <<>>, fired |-> FALSE, atFire |-> <<>>,
              reqs |-> <<>>, activated |-> FALSE, searched |-> FALSE]
  /\ last = [op |-> "load"]

(***************************************************************************)
(* The handlers, each as the changes it makes.  Some(x) in a field is a    *)
(* change to x (an alert shown, a fetch issued), Undef is no change.       *)
(***************************************************************************)
\* A clearTimeout that cancels nothing.
ClearTimeoutNoop(armed, handle) == armed

\* clearTimeout(debounceTimer)
ClearTimeout(armed, handle) == armed \ {handle}

\* The input listener without its clearTimeout.
OnInputNoClear(armed, handle, fresh) == armed \cup {fresh}

\* The input listener: the timers armed after it has run.
OnInput(armed, handle, fresh) == ClearTimeout(armed, handle) \cup {fresh}

\* fetchSuggestion, up to its fetch
fetchSuggestion(value) ==
  LET q == Trim(value)
  IN IF q = <<>>
     THEN [suggestion |-> Some(NoSuggestion), fetch |-> Undef]
     ELSE [suggestion |-> Undef, fetch |-> Some([q |-> q])]

\* The error that takes fetchSuggestion to its catch block, if any.
SuggestionThrows(resp) ==
  IF resp.type = "reject" THEN Some(resp.err)
  ELSE IF ~resp.body.json THEN Some(JsonErr)
  ELSE IF resp.body.data = Null THEN Some(NullErr)
  ELSE Undef

\* The "Did you mean" markup: the link's text and the argument written into
\* its onclick attribute.  q (not part of the markup) is the query the
\* suggestion was asked for.
SuggestionLink(d, q) == [kind |-> "link", text |-> d, onclick |-> d, q |-> q]

\* fetchSuggestion, from its fetch on: the suggestion view it leaves and what
\* it logs.
fetchSuggestionDone(q, resp) ==
  LET err == SuggestionThrows(resp)
  IN IF err.def
     THEN [suggestion |-> NoSuggestion,
           log |-> Some([tag |-> "Suggestion error:", err |-> err.v])]
     ELSE LET d == Get(resp.body.data, "did_you_mean")
          IN [suggestion |->
                IF d.def /\ d.v # <<>> /\ ToLowerCase(d.v) # ToLowerCase(q)
                THEN SuggestionLink(d.v, q) ELSE NoSuggestion,
              log |-> Undef]

\* The argument setSearchExample receives from onclick="setSearchExample('d')".
\* A quote in d ends the string literal early and what follows it does not
\* parse (over the characters of DidYouMeans): the handler does not compile and the click runs nothing.
OnclickArgument(d) == IF "'" \in Range(d) THEN Undef ELSE Some(d)

\* searchText emptying the suggestion view before it validates the query.
searchTextClearsFirst(value, suggestion) ==
  LET q == Trim(value)
  IN IF q = <<>>
     THEN [alert |-> Some([text |-> "Enter a text query"]),
           suggestion |-> NoSuggestion, fetch |-> Undef]
     ELSE [alert |-> Undef, suggestion |-> NoSuggestion,
           fetch |-> Some([kind |-> "text", q |-> q])]

\* searchText without its suggestionDiv.innerHTML = "".
searchTextKeepsSuggestion(value, suggestion) ==
  LET q == Trim(value)
  IN IF q = <<>>
     THEN [alert |-> Some([text |-> "Enter a text query"]),
           suggestion |-> suggestion, fetch |-> Undef]
     ELSE [alert |-> Undef, suggestion |-> suggestion,
           fetch |-> Some([kind |-> "text", q |-> q])]

\* searchText, up to its fetch, on the value of the query field and the
\* suggestion view
searchText(value, suggestion) ==
  LET q == Trim(value)
  IN IF q = <<>>
     THEN [alert |-> Some([text |-> "Enter a text query"]),
           suggestion |-> suggestion, fetch |-> Undef]
     ELSE [alert |-> Undef, suggestion |-> NoSuggestion,
           fetch |-> Some([kind |-> "text", q |-> q])]

\* searchImage, up to its fetch
searchImage(selected, suggestion) ==
  IF ~selected
  THEN [alert |-> Some([text |-> "Select an image first"]),
        suggestion |-> suggestion, fetch |-> Undef]
  ELSE [alert |-> Undef, suggestion |-> NoSuggestion,
        fetch |-> Some([kind |-> "image", q |-> <<"files[0]">>])]

\* alert("Error fetching results: " + err), alert("Error fetching image results: " + err)
CatchAlert(kind, err) ==
  [text |-> IF kind = "text" THEN "Error fetching results: "
            ELSE "Error fetching image results: ",
   err |-> err]

\* alert(`Error ${resp.status}: ${text}`)
HttpAlert(resp) == [text |-> "Error ", status |-> resp.status, body |-> resp.body.text]

\* searchDone with displayResults(data.results): items.length throws on a
\* results field that is absent or null.
searchDoneResultsRequired(kind, resp, div, count) ==
  IF resp.type = "reject"
  THEN [div |-> div, count |-> count, alert |-> Some(CatchAlert(kind, resp.err)),
        rendered |-> FALSE]
  ELSE IF ~resp.ok
  THEN [div |-> div, count |-> count, alert |-> Some(HttpAlert(resp)),
        rendered |-> FALSE]
  ELSE IF ~resp.body.json
  THEN [div |-> div, count |-> count, alert |-> Some(CatchAlert(kind, JsonErr)),
        rendered |-> FALSE]
  ELSE IF ~Get(resp.body.data, "results").def
  THEN [div |-> ClearResults(div), count |-> count,
        alert |-> Some(CatchAlert(kind, RenderErr)), rendered |-> FALSE]
  ELSE LET r == displayResults(div, resp.body.data.results)
       IN [div |-> r.div, count |-> r.count,
           alert |-> IF r.threw THEN Some(CatchAlert(kind, RenderErr)) ELSE Undef,
           rendered |-> TRUE]

\* searchDone without the resp.ok test: every response is parsed and rendered.
searchDoneNoOkCheck(kind, resp, div, count) ==
  IF resp.type = "reject"
  THEN [div |-> div, count |-> count, alert |-> Some(CatchAlert(kind, resp.err)),
        rendered |-> FALSE]
  ELSE IF ~resp.body.json
  THEN [div |-> div, count |-> count, alert |-> Some(CatchAlert(kind, JsonErr)),
        rendered |-> FALSE]
  ELSE LET r == displayResults(div, OrElse(Get(resp.body.data, "results"), <<>>))
       IN [div |-> r.div, count |-> r.count,
           alert |-> IF r.threw THEN Some(CatchAlert(kind, RenderErr)) ELSE Undef,
           rendered |-> TRUE]

\* searchText and searchImage, from the fetch on
searchDone(kind, resp, div, count) ==
  IF resp.type = "reject"
  THEN [div |-> div, count |-> count, alert |-> Some(CatchAlert(kind, resp.err)),
        rendered |-> FALSE]
  ELSE IF ~resp.ok
  THEN [div |-> div, count |-> count, alert |-> Some(HttpAlert(resp)),
        rendered |-> FALSE]
  ELSE IF ~resp.body.json
  THEN [div |-> div, count |-> count, alert |-> Some(CatchAlert(kind, JsonErr)),
        rendered |-> FALSE]
  ELSE LET r == displayResults(div, OrElse(Get(resp.body.data, "results"), <<>>))
       IN [div |-> r.div, count |-> r.count,
           alert |-> IF r.threw THEN Some(CatchAlert(kind, RenderErr)) ELSE Undef,
           rendered |-> TRUE]

\* setSearchExample(example): the value it gives the query field, and the
\* searchText it runs on the emptied suggestion view
setSearchExample(example) ==
  [value |-> example, search |-> searchText(example, NoSuggestion)]

(***************************************************************************)
(* The actions: one per event the page handles.                            *)
(***************************************************************************)
Shown(a) == IF a.def THEN <<a.v>> ELSE <<>>

\* A burst is the input events that follow one another with no timer expiring
\* in between: n events, the last of which typed `typed`.  fired: a timer has
\* expired since; atFire: the value of the field then; reqs: the queries of
\* the /suggest requests issued since the burst began; activated: a
\* suggestion was activated between the last event and the expiry; searched:
\* a search invocation has emptied the suggestion view since the last event.
NewBurst(v) ==
  [n |-> 1, typed |-> v, fired |-> FALSE, atFire |-> <<>>, reqs |-> <<>>,
   activated |-> FALSE, searched |-> FALSE]

InBurst(v) ==
  IF burst.n = 0 \/ burst.fired THEN NewBurst(v)
  ELSE [burst EXCEPT !.n = @ + 1, !.typed = v, !.activated = FALSE,
                     !.searched = FALSE]

\* The user changes the query field to v.
InputEvent(v) ==
  /\ v # textInput
  /\ textInput' = v
  /\ nInputs' = nInputs + 1
  /\ timers' = OnInput(timers, debounceTimer, nInputs + 1)
  /\ debounceTimer' = nInputs + 1
  /\ alerts' = <<>>
  /\ console' = <<>>
  /\ burst' = InBurst(v)
  /\ last' = [op |-> "input"]
  /\ UNCHANGED <<files, suggestionDiv, resultsDiv, resultsCount, suggestFetches,
                 searchFetches, nCalls, arrived>>

\* The user selects a file, or clears the selection.
SelectFile ==
  /\ files' = ~files
  /\ alerts' = <<>>
  /\ console' = <<>>
  /\ last' = [op |-> "select"]
  /\ UNCHANGED <<textInput, debounceTimer, timers, suggestionDiv, resultsDiv,
                 resultsCount, suggestFetches, searchFetches,
                 nInputs, nCalls, arrived, burst>>

\* Timer t expires, 300 ms after it was armed, and runs fetchSuggestion.
TimerFire(t) ==
  /\ t \in timers
  /\ timers' = timers \ {t}
  /\ LET r == fetchSuggestion(textInput)
     IN /\ suggestionDiv' = IF r.suggestion.def THEN r.suggestion.v ELSE suggestionDiv
        /\ suggestFetches' =
             IF r.fetch.def
             THEN suggestFetches \cup {[id |-> t, q |-> r.fetch.v.q]}
             ELSE suggestFetches
        /\ burst' = [burst EXCEPT !.fired = TRUE, !.atFire = textInput,
                                  !.reqs = IF r.fetch.def THEN Append(@, r.fetch.v.q)
                                           ELSE @]
  /\ alerts' = <<>>
  /\ console' = <<>>
  /\ last' = [op |-> "timer"]
  /\ UNCHANGED <<textInput, files, debounceTimer, resultsDiv, resultsCount,
                 searchFetches, nInputs, nCalls, arrived>>

\* The /suggest fetch f completes with resp.
SuggestionArrives(f, resp) ==
  /\ f \in suggestFetches
  /\ suggestFetches' = suggestFetches \ {f}
  /\ LET r == fetchSuggestionDone(f.q, resp)
     IN /\ suggestionDiv' = r.suggestion
        /\ console' = IF r.log.def THEN <<r.log.v>> ELSE <<>>
  /\ alerts' = <<>>
  /\ last' = [op |-> "suggestion", q |-> f.q, resp |-> resp]
  /\ UNCHANGED <<textInput, files, debounceTimer, timers, resultsDiv, resultsCount,
                 searchFetches, nInputs, nCalls, arrived, burst>>

\* An invocation that issues no request while another search is in flight.
InvokeDedupes(r) ==
  /\ nCalls' = nCalls + 1
  /\ alerts' = Shown(r.alert)
  /\ suggestionDiv' = r.suggestion
  /\ searchFetches' =
       IF r.fetch.def /\ searchFetches = {}
       THEN {[id |-> nCalls + 1, kind |-> r.fetch.v.kind, q |-> r.fetch.v.q]}
       ELSE searchFetches

\* What one searchText or searchImage invocation r changes.
Invoke(r) ==
  /\ nCalls' = nCalls + 1
  /\ alerts' = Shown(r.alert)
  /\ suggestionDiv' = r.suggestion
  /\ searchFetches' =
       IF r.fetch.def
       THEN searchFetches \cup
              {[id |-> nCalls + 1, kind |-> r.fetch.v.kind, q |-> r.fetch.v.q]}
       ELSE searchFetches

\* The user clicks the "Did you mean" link.
ClickSuggestion ==
  /\ suggestionDiv.kind = "link"
  /\ LET arg == OnclickArgument(suggestionDiv.onclick)
     IN IF arg.def
        THEN LET r == setSearchExample(arg.v)
             IN /\ textInput' = r.value
                /\ Invoke(r.search)
                /\ console' = <<>>
                /\ burst' = [burst EXCEPT !.activated = @ \/ ~burst.fired,
                                          !.searched = TRUE]
                /\ last' = [op |-> "click", d |-> suggestionDiv.text, ran |-> TRUE]
        ELSE /\ console' = <<[tag |-> "Uncaught", err |-> <<"SyntaxError">>]>>
             /\ alerts' = <<>>
             /\ last' = [op |-> "click", d |-> suggestionDiv.text, ran |-> FALSE]
             /\ UNCHANGED <<textInput, suggestionDiv, searchFetches, nCalls, burst>>
  /\ UNCHANGED <<files, debounceTimer, timers, resultsDiv, resultsCount,
                 suggestFetches, nInputs, arrived>>

\* The user triggers the text search.
SearchTextClick ==
  /\ Invoke(searchText(textInput, suggestionDiv))
  /\ console' = <<>>
  /\ burst' = [burst EXCEPT !.searched = @ \/ searchText(textInput, suggestionDiv).fetch.def]
  /\ last' = [op |-> "searchText", shown |-> suggestionDiv.kind = "link"]
  /\ UNCHANGED <<textInput, files, debounceTimer, timers, resultsDiv, resultsCount,
                 suggestFetches, nInputs, arrived>>

\* The user triggers the image search.
SearchImageClick ==
  /\ Invoke(searchImage(files, suggestionDiv))
  /\ console' = <<>>
  /\ burst' = [burst EXCEPT !.searched = @ \/ searchImage(files, suggestionDiv).fetch.def]
  /\ last' = [op |-> "searchImage", shown |-> suggestionDiv.kind = "link"]
  /\ UNCHANGED <<textInput, files, debounceTimer, timers, resultsDiv, resultsCount,
                 suggestFetches, nInputs, arrived>>

\* What a completed search left: an error dialog, the placeholder, or blocks.
Outcome(div, dialogs) ==
  IF dialogs # <<>> THEN "error" ELSE IF div.blocks = <<>> THEN "empty" ELSE "blocks"

\* The search fetch f completes with resp.
SearchArrives(f, resp) ==
  /\ f \in searchFetches
  /\ searchFetches' = searchFetches \ {f}
  /\ LET r == searchDone(f.kind, resp, resultsDiv, resultsCount)
     IN /\ resultsDiv' = r.div
        /\ resultsCount' = r.count
        /\ alerts' = Shown(r.alert)
  /\ console' = <<>>
  /\ arrived' = Append(arrived, [id |-> f.id, left |-> Outcome(resultsDiv', alerts')])
  /\ last' = [op |-> "searchDone", id |-> f.id, kind |-> f.kind, resp |-> resp]
  /\ UNCHANGED <<textInput, files, debounceTimer, timers, suggestionDiv,
                 suggestFetches, nInputs, nCalls, burst>>

\* The next-state relation, over what the user types and what the services
\* answer, up to maxInputs input events and maxCalls search invocations.
NextOn(typed, suggestResponses, searchResponses, maxInputs, maxCalls) ==
  \/ \E v \in typed : nInputs < maxInputs /\ InputEvent(v)
  \/ SelectFile
  \/ \E t \in timers : TimerFire(t)
  \/ \E f \in suggestFetches, resp \in suggestResponses : SuggestionArrives(f, resp)
  \/ nCalls < maxCalls /\ ClickSuggestion
  \/ nCalls < maxCalls /\ SearchTextClick
  \/ nCalls < maxCalls /\ SearchImageClick
  \/ \E f \in searchFetches, resp \in searchResponses : SearchArrives(f, resp)

\* Few answers of the search service: a failure of each kind, no results, one result.
FewSearchResponses ==
  {[type |-> "reject", err |-> <<"TypeError: Failed to fetch">>],
   [type |-> "http", ok |-> FALSE, status |-> 500,
    body |-> NotJson(<<"Internal Server Error">>)],
   [type |-> "http", ok |-> TRUE, status |-> 200, body |-> Json([results |-> <<>>])],
   [type |-> "http", ok |-> TRUE, status |-> 200,
    body |-> Json([results |-> <<RecSofa>>])]}

\* Few answers of the suggestion service: a failure, no suggestion, a suggestion.
FewSuggestResponses ==
  {[type |-> "reject", err |-> <<"TypeError: Failed to fetch">>],
   [type |-> "http", ok |-> TRUE, status |-> 200, body |-> Json([suggestions |-> <<>>])],
   [type |-> "http", ok |-> TRUE, status |-> 200,
    body |-> Json([did_you_mean |-> <<"a", "a">>])]}

FewTyped == {<<" ">>, <<"a">>}

\* The suggestion side in full, with few answers of the search service.
Next == NextOn(Typed, SuggestResponses, FewSearchResponses, MaxInputs, FewCalls)

Spec == Init /\ [][Next]_vars

\* The search side in full, with few queries and few answers of the
\* suggestion service.
NextSearch ==
  NextOn(FewTyped, FewSuggestResponses, SearchResponses, FewInputs, MaxCalls)

SpecSearch == Init /\ [][NextSearch]_vars

\* displayResults and the suggestion markup over records and suggestions of
\* every shape, one search at a time.
NextRender ==
  NextOn(FewTyped, MarkupSuggestResponses, RenderResponses, FewInputs, FewCalls)

SpecRender == Init /\ [][NextRender]_vars

(***************************************************************************)
(* The claims.                                                             *)
(***************************************************************************)
\* The /suggest requests a burst must have issued once its timer has expired
\* on the field value v.
OneRequestFor(v) == IF Trim(v) = <<>> THEN <<>> ELSE <<Trim(v)>>

\* C1: debounce.  A burst of input events issues no /suggest request before
\* its timer expires, whatever the intermediate values; once the timer has
\* expired it has issued exactly one request when the value the field then
\* holds is non-empty after trimming, and none otherwise; the request carries
\* that value, trimmed; and that value is the one typed by the last event of
\* the burst, unless a suggestion was activated after it (which is then the
\* last change of the field).
C1_DebounceOneRequest ==
  /\ ~burst.fired => burst.reqs = <<>>
  /\ burst.fired => burst.reqs = OneRequestFor(burst.atFire)
  /\ burst.fired /\ ~burst.activated => burst.atFire = burst.typed

\* A burst of two events whose timer has expired and issued the one request,
\* for the trimmed last value.
C1_Witness ==
  /\ burst.n = 2 /\ burst.fired /\ ~burst.activated
  /\ burst.typed = <<" ", "a">>
  /\ burst.reqs = <<<<"a">>>>
  /\ \E f \in suggestFetches : f.q = <<"a">>

\* A response of the service itself: a success status and a JSON body.
Answered(resp) == resp.type = "http" /\ resp.ok /\ resp.body.json

\* C2: staleness.  A /suggest response (here: a successful one) that arrives
\* when the query it was asked for no longer matches the trimmed value of the
\* query field is discarded: it leaves the suggestion view as it was, so the
\* view never comes to show a suggestion for a query that is not the current
\* one.
C2_StaleResponseDiscarded ==
  [][(last'.op = "suggestion" /\ suggestFetches' # suggestFetches
        /\ Answered(last'.resp) /\ last'.q # Trim(textInput))
       => suggestionDiv' = suggestionDiv]_vars

\* A /suggest request that failed: the fetch rejected, or the status is not a
\* success status.
Failed(resp) == resp.type = "reject" \/ ~resp.ok

\* C8: suggestion failures are silent.  After a failed /suggest request has
\* been handled, whatever its body, the suggestion view is empty; and no
\* suggestion event (a timer expiry, a /suggest completion) shows an alert.
C8_SuggestionFailureSilent ==
  /\ (last.op = "suggestion" /\ Failed(last.resp)) => suggestionDiv = NoSuggestion
  /\ last.op \in {"timer", "suggestion"} => alerts = <<>>

\* The suggestion view the did-you-mean rule asks for, for query q and
\* suggestion d (Undef: the answer carries none).
DidYouMeanView(q, d) ==
  IF d.def /\ d.v # <<>> /\ ToLowerCase(d.v) # ToLowerCase(q) THEN Some(d.v) ELSE Undef

\* The suggestion on display, if any.
Displayed ==
  IF suggestionDiv.kind = "link" THEN Some(suggestionDiv.text) ELSE Undef

\* C9: the did-you-mean rule.  After the answer to the request for q has
\* been handled, the view shows a link for its suggestion d exactly when d is
\* non-empty and differs from q whatever the case; and after the link for d
\* has been activated the query field holds d, the suggestion view is empty
\* and the text search just started is in flight with d as its query.
C9_DidYouMeanRule ==
  /\ (last.op = "suggestion" /\ Answered(last.resp)) =>
        Displayed = DidYouMeanView(last.q, Get(last.resp.body.data, "did_you_mean"))
  /\ last.op = "click" =>
        /\ textInput = last.d
        /\ suggestionDiv = NoSuggestion
        /\ \E f \in searchFetches : f.id = nCalls /\ f.kind = "text" /\ f.q = last.d

\* A step in which searchText or searchImage is invoked by its button.
TextSearchInvoked == nCalls' = nCalls + 1 /\ last'.op = "searchText"

ImageSearchInvoked == nCalls' = nCalls + 1 /\ last'.op = "searchImage"

\* C7: validation.  searchText invoked on a query that is empty after
\* trimming, and searchImage invoked with no file selected, show one
\* validation message each and issue no request; the results view, the count
\* label and the suggestion view are left as they were.
C7_ValidationBlocks ==
  [][((TextSearchInvoked /\ Trim(textInput) = <<>>)
        \/ (ImageSearchInvoked /\ ~files))
       => /\ alerts' = <<[text |-> IF last'.op = "searchText"
                                   THEN "Enter a text query"
                                   ELSE "Select an image first"]>>
          /\ searchFetches' = searchFetches
          /\ suggestFetches' = suggestFetches
          /\ resultsDiv' = resultsDiv
          /\ resultsCount' = resultsCount
          /\ suggestionDiv' = suggestionDiv]_vars

\* searchText has just refused a blank query while a suggestion was on
\* display, and the suggestion is still there.
C7_Witness ==
  /\ last.op = "searchText"
  /\ Trim(textInput) = <<>> /\ textInput # <<>>
  /\ alerts = <<[text |-> "Enter a text query"]>>
  /\ suggestionDiv.kind = "link"
  /\ searchFetches = {}

\* The results view that shows items: one block per item, in their order, or
\* the placeholder alone.
ViewOf(items) ==
  IF items = <<>> THEN NoResults
  ELSE [placeholder |-> FALSE,
        blocks |-> [i \in 1..Len(items) |-> ResultBlock(items[i])]]

\* The result list an answered search carries.
ResultsOf(resp) == OrElse(Get(resp.body.data, "results"), <<>>)

\* A step in which a search fetch completes.
SearchCompletes == Len(arrived') = Len(arrived) + 1

\* A search succeeded: it was answered and its handler showed no error.
Succeeded == last.op = "searchDone" /\ Answered(last.resp) /\ alerts = <<>>

\* A step in which searchText (by its button or by setSearchExample) or
\* searchImage is invoked and the validation passes.
ValidInvocation ==
  /\ nCalls' = nCalls + 1
  /\ \/ last'.op \in {"searchText", "click"} /\ Trim(textInput') # <<>>
     \/ last'.op = "searchImage" /\ files

\* C3: overlapping searches.  Every searchText or searchImage invocation that
\* passes validation issues exactly one request; a request leaves the set of
\* requests in flight only by completing (none is cancelled or merged with
\* another); and whenever a search succeeds, the results view shows the
\* results of that response, the last to arrive, whatever the order of the
\* invocations.
C3_LastArrivalWins ==
  [][/\ ValidInvocation
        => /\ \E f \in searchFetches' \ searchFetches :
                /\ searchFetches' = searchFetches \cup {f}
                /\ f.id = nCalls'
                /\ f.kind = (IF last'.op = "searchImage" THEN "image" ELSE "text")
           /\ Cardinality(searchFetches') = Cardinality(searchFetches) + 1
     /\ ~(searchFetches \subseteq searchFetches')
        => /\ SearchCompletes
           /\ searchFetches \ searchFetches' = {f \in searchFetches : f.id = last'.id}
     /\ (SearchCompletes /\ Succeeded')
        => resultsDiv' = ViewOf(ResultsOf(last'.resp))]_vars

\* Two searches overlapped and both succeeded; the one invoked first answered
\* last, and its results are on display.
C3_Witness ==
  /\ Len(arrived) = 2
  /\ arrived[1].id = 2 /\ arrived[1].left = "blocks"
  /\ arrived[2].id = 1
  /\ Succeeded
  /\ ResultsOf(last.resp) = <<RecChair, RecSofa>>
  /\ resultsDiv = ViewOf(<<RecChair, RecSofa>>)

\* A record the normalizer accepts: image_path present and non-empty.
WellFormed(item) == "image_path" \in DOMAIN item /\ item.image_path # <<>>

\* C4: malformed records are dropped.  After an answered search has been
\* handled, the results view holds one block for each well-formed record of
\* the answer, in their order, and none for the others, wherever they stand.
C4_MalformedDropped ==
  (last.op = "searchDone" /\ Answered(last.resp))
    => resultsDiv.blocks = ViewOf(SelectSeq(ResultsOf(last.resp), WellFormed)).blocks

\* A step in which a search fetch completes with a non-success status.
HttpErrorCompletes ==
  SearchCompletes /\ last'.resp.type = "http" /\ ~last'.resp.ok

\* C5: HTTP error on the search path.  When a search completes with a
\* non-success status, one error is shown, which carries the status and the
\* body text; the results view and the count label are left as they were;
\* and no request is issued.
C5_HttpErrorShown ==
  [][HttpErrorCompletes
       => /\ alerts' = <<[text |-> "Error ", status |-> last'.resp.status,
                          body |-> last'.resp.body.text]>>
          /\ resultsDiv' = resultsDiv
          /\ resultsCount' = resultsCount
          /\ searchFetches' \subseteq searchFetches
          /\ suggestFetches' = suggestFetches]_vars

\* A search has completed with status 500 after another had rendered blocks,
\* which are still on display under their count.
C5_Witness ==
  /\ last.op = "searchDone" /\ last.resp.type = "http" /\ ~last.resp.ok
  /\ Len(arrived) = 2 /\ arrived[1].left = "blocks"
  /\ Len(resultsDiv.blocks) = 2 /\ resultsCount = CountLabel(2)
  /\ Len(alerts) = 1 /\ alerts[1].status = 500

\* C6: transport failure on the search path.  When the fetch of a search
\* rejects, exactly one message is shown, and it is the same whatever the
\* error the fetch rejected with.
C6_TransportFailureGeneric ==
  (last.op = "searchDone" /\ last.resp.type = "reject")
    => \A e \in NetErrs : alerts = <<CatchAlert(last.kind, e)>>

\* The results view before anything was rendered.
EmptyView == [placeholder |-> FALSE, blocks |-> <<>>]

\* C10: the renderer repaints in full and keeps the order.  Whatever the
\* results view held before, after displayResults has rendered a list the
\* view holds one block per record, in the order of the list, or the
\* placeholder alone for the empty list: what rendering the list on an empty
\* view gives.
C10_FullRepaint ==
  Succeeded =>
    LET items == ResultsOf(last.resp)
    IN /\ resultsDiv = displayResults(EmptyView, items).div
       /\ resultsDiv.placeholder = (items = <<>>)
       /\ Len(resultsDiv.blocks) = Len(items)
       /\ \A i \in 1..Len(items) : resultsDiv.blocks[i] = ResultBlock(items[i])

\* A list of one record has been rendered over a view that held blocks.
C10_Witness ==
  /\ Succeeded
  /\ Len(arrived) = 2 /\ arrived[1].left = "blocks"
  /\ ResultsOf(last.resp) = <<RecChair>>
  /\ Len(resultsDiv.blocks) = 1

\* A price property that is present on the record: not absent and not empty.
PresentPrice(item, f) == f \in DOMAIN item /\ item[f] # <<>>

\* The first price that is present, in the order final_price, special_price,
\* price.
FirstPresentPrice(item) ==
  IF PresentPrice(item, "final_price") THEN Some(item.final_price)
  ELSE IF PresentPrice(item, "special_price") THEN Some(item.special_price)
  ELSE IF PresentPrice(item, "price") THEN Some(item.price)
  ELSE Undef

\* What is displayed for a record with no price.
Sentinels == {<<>>, <<"N/A">>}

\* C11: price fallback.  After a search has rendered its answer, the price
\* displayed in each block is the first of final_price, special_price and
\* price that is present (not absent and not empty) on the record, and the
\* sentinel when none is; a record carrying only special_price displays it.
C11_PriceFallback ==
  Succeeded =>
    LET items == ResultsOf(last.resp)
    IN \A i \in 1..Len(resultsDiv.blocks) :
         LET expected == FirstPresentPrice(items[i])
         IN IF expected.def THEN resultsDiv.blocks[i].price = expected.v
            ELSE resultsDiv.blocks[i].price \in Sentinels

\* A path rooted at the static namespace, and one under it that lacks only
\* the leading separator.
RootedAtStatic(path) == StartsWith(path, <<"/", "static", "/">>)

UnderStatic(path) == StartsWith(path, <<"static", "/">>)

\* A bare file name: no path separator.
BareFilename(path) == "/" \notin Range(path)

EndsWith(s, e) == Len(s) >= Len(e) /\ SubSeq(s, Len(s) - Len(e) + 1, Len(s)) = e

\* The image URL the resolution rule gives.
ResolvedUrl(path) ==
  IF RootedAtStatic(path) THEN path
  ELSE IF UnderStatic(path) THEN <<"/">> \o path
  ELSE <<"/", "static", "/", "uploads", "/">> \o SplitPop(path)

\* C12: image URL resolution.  After a search has rendered its answer, the
\* image of each record with a non-empty image_path has the path itself as its
\* URL when the path is rooted at the static namespace, the path with the
\* separator prefixed when it is under that namespace without the leading
\* separator, and the uploads sub-path followed by the last component of the
\* path otherwise; so the URL of a bare file name f ends with /uploads/f,
\* whatever f begins with.
C12_ImageUrlResolution ==
  Succeeded =>
    LET items == ResultsOf(last.resp)
    IN \A i \in 1..Len(resultsDiv.blocks) :
         LET path == items[i].image_path
         IN path # <<>> =>
              /\ resultsDiv.blocks[i].src = ResolvedUrl(path)
              /\ BareFilename(path) =>
                    EndsWith(resultsDiv.blocks[i].src, <<"/", "uploads", "/">> \o path)

\* A step in which a search fetch completes with an answer, which
\* displayResults is called on.
RenderCalled == SearchCompletes /\ Answered(last'.resp)

\* C13: count label.  After displayResults has been called on n records the
\* count label reads "1 item" when n is 1 and "n items" otherwise; for the
\* empty list it reads "0 items" and the results view holds the placeholder
\* and nothing else.
C13_CountLabel ==
  [][RenderCalled =>
       LET n == Len(ResultsOf(last'.resp))
       IN /\ resultsCount'.set /\ resultsCount'.n = n
          /\ n = 1 => resultsCount'.noun = "item"
          /\ n # 1 => resultsCount'.noun = "items"
          /\ n = 0 => /\ resultsCount' = [set |-> TRUE, n |-> 0, noun |-> "items"]
                      /\ resultsDiv' = [placeholder |-> TRUE, blocks |-> <<>>]]_vars

\* A list of one record has been rendered after a list of more: the label is
\* in the singular.
C13_Witness ==
  /\ Succeeded
  /\ Len(arrived) = 2 /\ arrived[1].left = "blocks"
  /\ Len(ResultsOf(last.resp)) = 1
  /\ resultsCount = [set |-> TRUE, n |-> 1, noun |-> "item"]
  /\ Len(resultsDiv.blocks) = 1

\* escapeHtml of src/unnamed/part_001: the text written as textContent and
\* read back as innerHTML, which replaces &, < and >.
EscapeHtml(text) ==
  [i \in 1..Len(text) |->
     IF text[i] = "&" THEN "&amp;"
     ELSE IF text[i] = "<" THEN "&lt;"
     ELSE IF text[i] = ">" THEN "&gt;"
     ELSE text[i]]

\* The suggestion the answer of the /suggest request handled last carries.
SuggestionOf(resp) == Get(resp.body.data, "did_you_mean").v

\* C14: escaping on every path.  The title, the description and every colour
\* tag of each block of the results view are the escaped strings of its
\* record, and the suggestion view holds the escaped suggestion both as the
\* text of its link and as the argument in its click handler.
C14_EscapedEverywhere ==
  /\ Succeeded =>
        LET items == ResultsOf(last.resp)
        IN \A i \in 1..Len(resultsDiv.blocks) :
             LET block == resultsDiv.blocks[i]
                 tags == OrElse(Get(items[i], "colors"), <<>>)
             IN /\ block.title = EscapeHtml(OrElse(Get(items[i], "item_name"), <<>>))
                /\ block.description =
                     EscapeHtml(OrElse(Get(items[i], "description"), <<>>))
                /\ block.tags = [j \in 1..Len(tags) |-> EscapeHtml(tags[j])]
  /\ (last.op = "suggestion" /\ suggestionDiv.kind = "link") =>
        /\ suggestionDiv.text = EscapeHtml(SuggestionOf(last.resp))
        /\ suggestionDiv.onclick = EscapeHtml(SuggestionOf(last.resp))

\* A step in which a debounce timer expires.
TimerExpires == last'.op = "timer" /\ timers' # timers

\* C15: at most one debounce timer.  In every state at most one timer is
\* armed, and it is the one debounceTimer holds; the timer that expires is
\* that one, never one an input event has superseded; and a /suggest request
\* is issued only by a timer expiring, one at most for each expiry.
C15_OneTimer ==
  /\ [](Cardinality(timers) <= 1 /\ timers \subseteq {debounceTimer})
  /\ [][/\ TimerExpires => timers \ timers' = {debounceTimer}
        /\ ~(suggestFetches' \subseteq suggestFetches)
             => /\ TimerExpires
                /\ Cardinality(suggestFetches' \ suggestFetches) = 1]_vars

\* The second input event came while the timer of the first was armed; the
\* timer of the second has expired and issued the only request.
C15_Witness ==
  /\ nInputs = 2 /\ burst.n = 2 /\ burst.fired
  /\ debounceTimer = 2 /\ timers = {}
  /\ {f.id : f \in suggestFetches} = {2}

\* The debounce timer has expired on a blank query field and no input event
\* has followed.
FiredOnBlank == burst.fired /\ Trim(burst.atFire) = <<>>

\* C16: timer expiry on a blank query.  When the debounce timer expires while
\* the query field is empty or blank, no /suggest request is issued and the
\* suggestion view is emptied; and the view then stays empty until the next
\* input event, also when the answer (here: a successful one) to a request
\* for an earlier value arrives meanwhile.
C16_BlankFireStaysEmpty ==
  /\ [](FiredOnBlank => burst.reqs = <<>>)
  /\ [][(TimerExpires /\ Trim(textInput) = <<>>)
          => suggestionDiv' = NoSuggestion /\ suggestFetches' = suggestFetches]_vars
  /\ [][(/\ FiredOnBlank /\ FiredOnBlank'
         /\ suggestionDiv = NoSuggestion
         /\ ~(last'.op = "suggestion" /\ Failed(last'.resp)))
          => suggestionDiv' = NoSuggestion]_vars

\* C17: the suggestion is emptied before a search request is sent.  Every
\* searchText or searchImage invocation that passes validation leaves the
\* suggestion view empty, and in every step that sends a search request the
\* suggestion view is empty once the request is in flight.
C17_SuggestionEmptiedFirst ==
  [][/\ ValidInvocation => suggestionDiv' = NoSuggestion
     /\ ~(searchFetches' \subseteq searchFetches) => suggestionDiv' = NoSuggestion]_vars

\* searchText was invoked by its button on a non-blank query while a
\* suggestion was on display: its request is in flight and the suggestion
\* view is empty.
C17_Witness ==
  /\ last.op = "searchText" /\ last.shown
  /\ \E f \in searchFetches : f.id = nCalls /\ f.kind = "text" /\ f.q = Trim(textInput)
  /\ suggestionDiv = NoSuggestion

\* A step in which a search completes with a success status and a JSON
\* object that has no results: the field is absent, or null.
CompletesWithoutResults ==
  /\ RenderCalled
  /\ "results" \notin DOMAIN last'.resp.body.data

\* C18: results absent or null.  When a search succeeds with a payload whose
\* results field is absent or null, the results view holds the no-results
\* placeholder alone, the count label reads "0 items" and no message is shown.
C18_NoResultsField ==
  [][CompletesWithoutResults
       => /\ resultsDiv' = [placeholder |-> TRUE, blocks |-> <<>>]
          /\ resultsCount' = [set |-> TRUE, n |-> 0, noun |-> "items"]
          /\ alerts' = <<>>
          /\ console' = <<>>]_vars

\* An answer with a null results field has been handled after a search had
\* rendered blocks: the placeholder and "0 items" are on display, no dialog.
C18_Witness ==
  /\ last.op = "searchDone" /\ Answered(last.resp)
  /\ last.resp.body.data = WithNull({"results"})
  /\ Len(arrived) = 2 /\ arrived[1].left = "blocks"
  /\ resultsDiv = NoResults /\ resultsCount = CountLabel(0)
  /\ alerts = <<>>

\* C19: the suggestion stays empty after a search.  A search invocation that
\* empties the suggestion view (searchText or searchImage passing validation,
\* or setSearchExample) leaves it empty, and from then to the next input
\* event it stays empty: neither the expiry of a debounce timer that was
\* armed nor the answer (here: a successful one) to a /suggest request that
\* was in flight puts a suggestion back.
C19_EmptyAfterSearch ==
  /\ [][(~burst.searched /\ burst'.searched) => suggestionDiv' = NoSuggestion]_vars
  /\ [][(/\ burst.searched /\ burst'.searched
         /\ suggestionDiv = NoSuggestion
         /\ ~(last'.op = "suggestion" /\ Failed(last'.resp)))
          => suggestionDiv' = NoSuggestion]_vars

\* The search handled last ended in a completed render: every record of its
\* answer has its block on display.
RenderCompleted ==
  /\ Answered(last.resp)
  /\ Len(resultsDiv.blocks) = Len(ResultsOf(last.resp))
  /\ resultsDiv.placeholder <=> ResultsOf(last.resp) = <<>>
  /\ \A i \in 1..Len(resultsDiv.blocks) :
        resultsDiv.blocks[i] = ResultBlock(ResultsOf(last.resp)[i])

\* C20: the count label and the results view agree.  Once a render has set
\* the count label, the number it shows is the number of blocks on display,
\* and it is 0 exactly when the placeholder is on display; and a search that
\* has been handled ended either in a completed render or in an error
\* message, not in both and not in neither.
C20_LabelAgreesWithView ==
  /\ resultsCount.set =>
        /\ resultsCount.n = Len(resultsDiv.blocks)
        /\ resultsDiv.placeholder <=> resultsCount.n = 0
  /\ last.op = "searchDone" => (RenderCompleted <=> alerts = <<>>)

====
